---- MODULE Spec2Model ----
(***************************************************************************)
(* The React front end of the cold-outreach researcher: the state of the   *)
(* App component (src/unnamed/part_000), its event handlers, and the       *)
(* runAgent call to the backend (src/frontend/src/api.js).                 *)
(*                                                                         *)
(* Text whose characters matter to the code (the draft, which is trimmed,  *)
(* and the company name, whose whitespace is replaced) is a sequence of    *)
(* one-character strings.  Text the code only stores, compares with the    *)
(* empty string or displays is an atomic string.                           *)
(***************************************************************************)
EXTENDS Naturals, Sequences, FiniteSets, TLC

VARIABLES
    form,          \* useState(initialForm)
    logLines,      \* useState([])
    summary,       \* useState("")
    emailDraft,    \* useState("")
    status,        \* useState("idle")
    error,         \* useState("")
    sendMessage,   \* useState("")
    isSubmitting,  \* useState(false)
    payload,       \* the argument of the latest runAgent call
    response,      \* what the latest runAgent call got from fetch
    operatorDraft, \* the operator's last textarea input of the current run
    download       \* the file the latest event made the browser save, if any

vars == <<form, logLines, summary, emailDraft, status, error, sendMessage,
          isSubmitting, payload, response, operatorDraft, download>>

\* The state the component renders (everything useState holds but the form).
ui == <<logLines, summary, emailDraft, status, error, sendMessage, isSubmitting>>

----------------------------------------------------------------------------
\* Bounds of the model.

\* Longest text the operator types into the draft textarea.
MaxLen == 2

----------------------------------------------------------------------------
\* Text.

Chars == {"a", " "}

Text == UNION {[1..n -> Chars] : n \in 0..MaxLen}

IsSpace(c) == c = " "

RECURSIVE TrimStart(_)
TrimStart(s) ==
    IF s # <<>> /\ IsSpace(Head(s)) THEN TrimStart(Tail(s)) ELSE s

RECURSIVE TrimEnd(_)
TrimEnd(s) ==
    IF s # <<>> /\ IsSpace(s[Len(s)]) THEN TrimEnd(SubSeq(s, 1, Len(s) - 1)) ELSE s

\* String.prototype.trim
Trim(s) == TrimEnd(TrimStart(s))

\* company.replace(/\s+/g, "_"): every maximal run of whitespace becomes one "_".
RECURSIVE ReplaceWhitespace(_)
ReplaceWhitespace(s) ==
    IF s = <<>> THEN <<>>
    ELSE IF IsSpace(Head(s)) THEN <<"_">> \o ReplaceWhitespace(TrimStart(Tail(s)))
    ELSE <<Head(s)>> \o ReplaceWhitespace(Tail(s))

----------------------------------------------------------------------------
\* The form.

AcmeCorp == <<"A", "c", "m", "e", " ", "C", "o", "r", "p">>

initialForm ==
    [company |-> AcmeCorp, url |-> "", provider |-> "openai", model |-> "gpt-4o-mini"]

\* What the operator can put into each field (handleChange's evt.target).
FieldInputs ==
    [company  |-> {<<>>, <<"B">>, AcmeCorp},
     url      |-> {"", "acme"},
     provider |-> {"openai", "anthropic"},
     model    |-> {"gpt-4o-mini"}]

FieldNames == {"company", "url", "provider", "model"}

\* <input type="url">: the empty value is valid, any other must be an absolute URL.
UrlValid(u) == u \in {"", "https://www.acme.com"}

\* Mutant: the company input without its required attribute.
FormValidWithoutRequired(f) == UrlValid(f.url)

\* The browser's constraint validation of the form: company is required.
FormValid(f) == f.company # <<>> /\ UrlValid(f.url)

NoPayload == [none |-> TRUE]

----------------------------------------------------------------------------
\* The messages of the code.

ReachDefault == "Failed to reach agent."
RunDefault == "Failed to run agent."
\* (the source writes the dash of this message as an em dash)
NothingToSend == "Nothing to send - please run the agent first."
MockSendComplete == "Mock send complete. (Hook your email API here.)"
FetchFailed == "Failed to fetch"
JsonSyntaxError == "Unexpected token < in JSON at position 0"
NullPropertyError == "Cannot read properties of null (reading 'log')"

----------------------------------------------------------------------------
\* The backend's answers to POST /api/run, as fetch hands them to runAgent.

NoResponse == [kind |-> "none"]
Pending == [kind |-> "pending"]

FullLog == <<"Searching for company news...", "Drafted email">>
PartialLog == <<"Searching for company news...">>
GeneratedSummary == "Acme builds widgets."
GeneratedDraft == <<"a", "a">>
ServerDetail == "LLM provider error"

\* A JSON object holding the keys K only.
JsonObject(K, log, sum, draft, detail) ==
    [k \in K |-> CASE k = "log" -> log
                  [] k = "summary" -> sum
                  [] k = "email_draft" -> draft
                  [] k = "detail" -> detail]

\* Bodies of a 2xx answer: not JSON, the JSON null, or an object with any of
\* the keys the handler reads.
OkBodies ==
    {[json |-> "invalid"], [json |-> "null"]}
    \cup {[json |-> "object",
           data |-> JsonObject(K, FullLog, GeneratedSummary, GeneratedDraft, "")] :
          K \in SUBSET {"log", "summary", "email_draft"}}

\* Bodies of a non-2xx answer: a detail or none, and whatever the failed run
\* had produced by then.
ErrorBodies ==
    {[json |-> "invalid"], [json |-> "null"]}
    \cup {[json |-> "object",
           data |-> JsonObject(K, PartialLog, GeneratedSummary, <<>>, ServerDetail)] :
          K \in SUBSET {"detail", "log", "summary"}}

Responses ==
    {[kind |-> "network_error", message |-> FetchFailed]}
    \cup {[kind |-> "http", ok |-> TRUE, body |-> b] : b \in OkBodies}
    \cup {[kind |-> "http", ok |-> FALSE, body |-> b] : b \in ErrorBodies}

\* obj.key || dflt, for a string-valued key (undefined and "" are falsy).
StrOr(obj, key, dflt) ==
    IF key \in DOMAIN obj /\ obj[key] # "" THEN obj[key] ELSE dflt

\* obj.key || dflt, for an array-valued key (an array is truthy, even empty).
ArrOr(obj, key, dflt) ==
    IF key \in DOMAIN obj THEN obj[key] ELSE dflt

\* obj.key || dflt, for a key holding character-sequence text ("" is falsy).
TextOr(obj, key, dflt) ==
    IF key \in DOMAIN obj /\ obj[key] # <<>> THEN obj[key] ELSE dflt

Fulfilled(v) == [fulfilled |-> TRUE, value |-> v]
Rejected(m) == [fulfilled |-> FALSE, message |-> m]

\* runAgent: how its promise settles, given what fetch got.
RunAgent(r) ==
    IF r.kind = "network_error" THEN Rejected(r.message)
    ELSE IF ~r.ok THEN
        Rejected(IF r.body.json = "object"
                   THEN StrOr(r.body.data, "detail", ReachDefault)
                   ELSE ReachDefault)
    ELSE IF r.body.json = "invalid" THEN Rejected(JsonSyntaxError)
    ELSE Fulfilled(r.body)

----------------------------------------------------------------------------
\* The initial render.

NoEdit == [edited |-> FALSE, text |-> <<>>]
NoDownload == [produced |-> FALSE]

Init ==
    /\ form = initialForm
    /\ logLines = <<>>
    /\ summary = ""
    /\ emailDraft = <<>>
    /\ status = "idle"
    /\ error = ""
    /\ sendMessage = ""
    /\ isSubmitting = FALSE
    /\ payload = NoPayload
    /\ response = NoResponse
    /\ operatorDraft = NoEdit
    /\ download = NoDownload

----------------------------------------------------------------------------
\* The event handlers.

\* handleChange: one field of the form takes the input's value.
HandleChange(name, value) ==
    /\ form' = [form EXCEPT ![name] = value]
    /\ download' = NoDownload
    /\ UNCHANGED <<ui, payload, response, operatorDraft>>

\* Mutant: a Reset that also clears the trace log.
ResetClickClearsLog ==
    /\ form' = initialForm
    /\ logLines' = <<>>
    /\ download' = NoDownload
    /\ UNCHANGED <<summary, emailDraft, status, error, sendMessage, isSubmitting,
                   payload, response, operatorDraft>>

\* Mutant: a Reset that also takes the run back to idle.
ResetClickResetsStatus ==
    /\ form' = initialForm
    /\ status' = "idle"
    /\ download' = NoDownload
    /\ UNCHANGED <<logLines, summary, emailDraft, error, sendMessage, isSubmitting,
                   payload, response, operatorDraft>>

\* The Reset button: setForm(initialForm), and nothing else.
ResetClick ==
    /\ form' = initialForm
    /\ download' = NoDownload
    /\ UNCHANGED <<ui, payload, response, operatorDraft>>

\* Mutant: handleSubmit without its setSummary("").
HandleSubmitKeepsSummary ==
    /\ isSubmitting' = TRUE
    /\ error' = ""
    /\ status' = "running"
    /\ sendMessage' = ""
    /\ emailDraft' = <<>>
    /\ logLines' = <<>>
    /\ payload' = form
    /\ response' = Pending
    /\ operatorDraft' = NoEdit
    /\ download' = NoDownload
    /\ UNCHANGED <<form, summary>>

\* handleSubmit up to its await: the previous run's output is cleared and the
\* request leaves with the form as it is now.
HandleSubmit ==
    /\ isSubmitting' = TRUE
    /\ error' = ""
    /\ status' = "running"
    /\ sendMessage' = ""
    /\ summary' = ""
    /\ emailDraft' = <<>>
    /\ logLines' = <<>>
    /\ payload' = form
    /\ response' = Pending
    /\ operatorDraft' = NoEdit
    /\ download' = NoDownload
    /\ UNCHANGED form

\* Mutant: a submit button that is not disabled while a run is in flight.
SubmitClickNotDisabled ==
    IF FormValid(form)
    THEN HandleSubmit
    ELSE download' = NoDownload /\ UNCHANGED <<form, ui, payload, response, operatorDraft>>

\* A click on the submit button (or Enter in a field).  The button is disabled
\* while isSubmitting; the browser validates the form and fires onSubmit only
\* when it is valid.
SubmitClick ==
    /\ ~isSubmitting
    /\ IF FormValid(form)
       THEN HandleSubmit
       ELSE download' = NoDownload /\ UNCHANGED <<form, ui, payload, response, operatorDraft>>

\* handleSubmit after its await, when runAgent's promise fulfilled with result.
\* Reading result.log of the JSON null throws inside the try block.
SubmitFulfilled(result) ==
    IF result.json = "null"
    THEN /\ error' = NullPropertyError
         /\ status' = "idle"
         /\ isSubmitting' = FALSE
         /\ UNCHANGED <<logLines, summary, emailDraft, sendMessage>>
    ELSE /\ logLines' = ArrOr(result.data, "log", <<>>)
         /\ summary' = StrOr(result.data, "summary", "")
         /\ emailDraft' = TextOr(result.data, "email_draft", <<>>)
         /\ status' = "ready"
         /\ isSubmitting' = FALSE
         /\ UNCHANGED <<error, sendMessage>>

\* Mutant: a catch block without its setStatus("idle").
SubmitRejectedKeepsStatus(message) ==
    /\ error' = (IF message # "" THEN message ELSE RunDefault)
    /\ isSubmitting' = FALSE
    /\ UNCHANGED <<logLines, summary, emailDraft, sendMessage, status>>

\* handleSubmit after its await, when runAgent's promise rejected with an
\* Error carrying message: the catch block, then finally.
SubmitRejected(message) ==
    /\ error' = (IF message # "" THEN message ELSE RunDefault)
    /\ status' = "idle"
    /\ isSubmitting' = FALSE
    /\ UNCHANGED <<logLines, summary, emailDraft, sendMessage>>

\* The backend answers (or the network fails) and handleSubmit resumes.
HandleSubmitResume(r) ==
    /\ response = Pending
    /\ response' = r
    /\ LET settled == RunAgent(r)
       IN  IF settled.fulfilled
           THEN SubmitFulfilled(settled.value)
           ELSE SubmitRejected(settled.message)
    /\ download' = NoDownload
    /\ UNCHANGED <<form, payload, operatorDraft>>

\* The draft textarea's onChange: it is never disabled.
DraftChange(text) ==
    /\ text # emailDraft
    /\ emailDraft' = text
    /\ operatorDraft' = [edited |-> TRUE, text |-> text]
    /\ download' = NoDownload
    /\ UNCHANGED <<form, logLines, summary, status, error, sendMessage,
                   isSubmitting, payload, response>>

\* Mutant: a handleSend that tests emailDraft without trimming it.
HandleSendWithoutTrim ==
    /\ IF emailDraft = <<>>
       THEN /\ sendMessage' = NothingToSend
            /\ UNCHANGED status
       ELSE /\ sendMessage' = MockSendComplete
            /\ status' = "sent"
    /\ download' = NoDownload
    /\ UNCHANGED <<form, logLines, summary, emailDraft, error, isSubmitting,
                   payload, response, operatorDraft>>

\* Mutant: a send that adds a trace line each time it delivers.
HandleSendLogsEachSend ==
    /\ IF Trim(emailDraft) = <<>>
       THEN /\ sendMessage' = NothingToSend
            /\ UNCHANGED <<status, logLines>>
       ELSE /\ sendMessage' = MockSendComplete
            /\ status' = "sent"
            /\ logLines' = Append(logLines, "Mock sent")
    /\ download' = NoDownload
    /\ UNCHANGED <<form, summary, emailDraft, error, isSubmitting,
                   payload, response, operatorDraft>>

\* handleSend.
HandleSend ==
    /\ IF Trim(emailDraft) = <<>>
       THEN /\ sendMessage' = NothingToSend
            /\ UNCHANGED status
       ELSE /\ sendMessage' = MockSendComplete
            /\ status' = "sent"
    /\ download' = NoDownload
    /\ UNCHANGED <<form, logLines, summary, emailDraft, error, isSubmitting,
                   payload, response, operatorDraft>>

\* A click on "Approve & mock send", disabled while emailDraft is "".
SendClick ==
    /\ emailDraft # <<>>
    /\ HandleSend

\* handleDownload: the report is named after the company in the form now.
HandleDownload ==
    IF summary = "" /\ emailDraft = <<>>
    THEN download' = NoDownload /\ UNCHANGED <<form, ui, payload, response, operatorDraft>>
    ELSE /\ download' = [produced |-> TRUE,
                         header   |-> form.company,
                         filename |-> <<ReplaceWhitespace(form.company), "_outreach.md">>]
         /\ UNCHANGED <<form, ui, payload, response, operatorDraft>>

\* A click on "Download", disabled while summary and emailDraft are both "".
DownloadClick ==
    /\ ~(summary = "" /\ emailDraft = <<>>)
    /\ HandleDownload

Next ==
    \/ \E name \in FieldNames : \E value \in FieldInputs[name] : HandleChange(name, value)
    \/ ResetClick
    \/ SubmitClick
    \/ \E r \in Responses : HandleSubmitResume(r)
    \/ \E text \in Text : DraftChange(text)
    \/ SendClick
    \/ DownloadClick

Spec == Init /\ [][Next]_vars

----------------------------------------------------------------------------
\* What the latest run came to.

Settled == response # NoResponse /\ response # Pending

\* The latest run reached setStatus("ready"): a 2xx answer with a JSON object.
RunSucceeded ==
    /\ Settled
    /\ response.kind = "http"
    /\ response.ok
    /\ response.body.json = "object"

RunFailed == Settled /\ ~RunSucceeded

\* The answer of the latest run carried a JSON object with this key.
ResponseHas(key) ==
    /\ Settled
    /\ response.kind = "http"
    /\ response.body.json = "object"
    /\ key \in DOMAIN response.body.data

----------------------------------------------------------------------------
\* C1: every transition into 'sent' is a handleSend step taken while the
\* status is 'ready'; 'sent' is never entered from 'idle' or 'running'.
C1_SentOnlyFromReady ==
    [][(status' = "sent" /\ status # "sent") => (status = "ready" /\ SendClick)]_vars

\* C2: after a failed run, the trace log and the partial summary the failed
\* run had produced (the answer carries them) are still displayed.
C2_FailureKeepsArtifacts ==
    RunFailed =>
        /\ (ResponseHas("log") => logLines = response.body.data.log)
        /\ (ResponseHas("summary") => summary = response.body.data.summary)

\* C3: while the status is 'ready' no answer is outstanding, and the only
\* steps that leave 'ready' are a send click and a submit.
C3_ReadyOnlyLeftByOperator ==
    [][status = "ready" =>
          /\ response # Pending
          /\ (status' # "ready" => SendClick \/ SubmitClick)]_vars

\* C3 witness: the run awaits approval, and an event that is neither a send
\* nor a submit (a download) has just been handled.
C3_Witness == status = "ready" /\ download # NoDownload

\* C4: the status only moves forward along idle, running, ready, sent, apart
\* from the failure edge running -> idle and from a new submit.
StatusRank(st) ==
    CASE st = "idle" -> 0 [] st = "running" -> 1 [] st = "ready" -> 2 [] st = "sent" -> 3

C4_StatusOnlyForward ==
    [][status' # status =>
          \/ StatusRank(status') > StatusRank(status)
          \/ (status = "running" /\ status' = "idle")
          \/ (SubmitClick /\ status' = "running")]_vars

\* C5 as stated: when the run fails, handleSubmit ends with a non-empty error
\* that is the answer's detail when it has one and otherwise a default text of
\* the code, with status 'idle' and isSubmitting false.
DefaultTexts == {ReachDefault, RunDefault}

C5_FailureShowsDetailOrDefault ==
    [][(response = Pending /\ RunFailed') =>
          /\ error' # ""
          /\ status' = "idle"
          /\ isSubmitting' = FALSE
          /\ IF ResponseHas("detail")' /\ ~response'.ok /\ response'.body.data.detail # ""
             THEN error' = response'.body.data.detail
             ELSE error' \in DefaultTexts]_vars

\* C5 amended: when the run fails, handleSubmit ends with status 'idle',
\* isSubmitting false and a non-empty error: the detail of a non-2xx answer
\* that has one, the default text for any other non-2xx answer, and otherwise
\* the message of the exception that fetch, response.json() or the handler's
\* own read of the result raised.
C5_FailureIsCaught ==
    [][(response = Pending /\ RunFailed') =>
          /\ error' # ""
          /\ status' = "idle"
          /\ isSubmitting' = FALSE
          /\ error' =
                IF response'.kind = "network_error" THEN response'.message
                ELSE IF ~response'.ok
                    THEN IF ResponseHas("detail")' /\ response'.body.data.detail # ""
                         THEN response'.body.data.detail
                         ELSE ReachDefault
                ELSE IF response'.body.json = "invalid" THEN JsonSyntaxError
                ELSE NullPropertyError]_vars

\* C5 witness: a run that failed on a network error, the exception's message
\* shown as the error.
C5_Witness ==
    RunFailed /\ response.kind = "network_error" /\ error = FetchFailed
        /\ status = "idle" /\ ~isSubmitting

\* C6: a submit with an empty company starts no run: no request is issued,
\* the status does not become 'running', nothing displayed changes; and no
\* request ever carries an empty company.
C6_EmptyCompanyStartsNoRun ==
    /\ [](payload # NoPayload => payload.company # <<>>)
    /\ [][(SubmitClick /\ form.company = <<>>) =>
             UNCHANGED <<ui, payload, response>>]_vars

\* C6 witness: the company is empty while the submit button is enabled.
C6_Witness == form.company = <<>> /\ ~isSubmitting /\ payload # NoPayload

\* C7: a send on a run already sent, with the sent draft still in the
\* textarea, changes nothing of what is displayed.
C7_SendIdempotent ==
    [][(SendClick /\ status = "sent" /\ sendMessage = MockSendComplete
            /\ Trim(emailDraft) # <<>>) =>
          UNCHANGED <<status, sendMessage, logLines, summary, emailDraft, error>>]_vars

\* C7 witness: a run that was sent, with trace lines displayed.
C7_Witness ==
    status = "sent" /\ sendMessage = MockSendComplete /\ logLines # <<>>

\* C8: when the operator has edited the draft in this run, the emailDraft
\* that is sent is the operator's last input.
C8_SendsOperatorsEdit ==
    [][(SendClick /\ status' = "sent" /\ operatorDraft.edited) =>
          emailDraft = operatorDraft.text]_vars

\* C9: a run awaiting approval can be declined: a step to a Rejected outcome
\* that leaves emailDraft as it is can be taken.
RejectStep == Next /\ status' = "rejected" /\ emailDraft' = emailDraft

C9_RejectPossible == status = "ready" => ENABLED RejectStep

\* C10 as stated: the summary is non-empty exactly when the latest run has
\* succeeded.
C10_SummaryIffSucceeded == (summary # "") <=> RunSucceeded

\* C10 amended: the summary is non-empty only when the latest run has
\* succeeded, and it is then the summary of that run's answer; in every other
\* state (also after an answer without a summary) it is empty.
C10_SummaryOnlyFromSuccess ==
    IF RunSucceeded /\ ResponseHas("summary")
    THEN summary = response.body.data.summary
    ELSE summary = ""

\* C10 witness: a summary still displayed after the run was sent and the
\* draft edited.
C10_Witness == summary # "" /\ status = "sent" /\ operatorDraft.edited

\* C11: apart from the submit that starts a new run, every change of the
\* displayed trace log extends it: the lines displayed before remain, in
\* order, as a prefix.
IsPrefix(a, b) == Len(a) <= Len(b) /\ SubSeq(b, 1, Len(a)) = a

C11_LogOnlyExtended ==
    [][logLines' # logLines => (IsPrefix(logLines, logLines') \/ SubmitClick)]_vars

\* C11 witness: the trace of a run still displayed after the run was sent, the
\* draft edited and the form changed.
C11_Witness ==
    /\ logLines = FullLog
    /\ status = "sent"
    /\ operatorDraft.edited
    /\ form # payload

\* C12: the submit that starts a run leaves the form as it is and empties
\* logLines, summary, emailDraft, error and sendMessage, with status
\* 'running'; and whatever is displayed afterwards comes from this run only:
\* the log and the summary are those of this run's answer, the draft is this
\* run's answer's or the operator's input of this run.
C12_NewRunDiscardsPrevious ==
    /\ [][(SubmitClick /\ FormValid(form)) =>
             /\ logLines' = <<>>
             /\ summary' = ""
             /\ emailDraft' = <<>>
             /\ error' = ""
             /\ sendMessage' = ""
             /\ status' = "running"
             /\ form' = form]_vars
    /\ [](logLines = IF RunSucceeded /\ ResponseHas("log")
                        THEN response.body.data.log ELSE <<>>)
    /\ [](summary = IF RunSucceeded /\ ResponseHas("summary")
                       THEN response.body.data.summary ELSE "")
    /\ [](\/ emailDraft = <<>>
          \/ operatorDraft.edited /\ emailDraft = operatorDraft.text
          \/ RunSucceeded /\ ResponseHas("email_draft")
                /\ emailDraft = response.body.data.email_draft)

\* C12 witness: a run has just started from a form the operator changed, and
\* nothing is displayed.
C12_Witness ==
    /\ status = "running"
    /\ response = Pending
    /\ payload = form
    /\ form # initialForm
    /\ logLines = <<>> /\ summary = "" /\ emailDraft = <<>>
    /\ error = "" /\ sendMessage = ""

\* C13: isSubmitting is true exactly while the request is outstanding; no
\* handleSubmit starts while it is (the submit control is disabled), so there
\* is never a second request; and the answer's arrival, success or failure,
\* resets isSubmitting.
C13_OneRequestAtATime ==
    /\ [](isSubmitting <=> response = Pending)
    /\ [][HandleSubmit => (~isSubmitting /\ response # Pending)]_vars
    /\ [][(response = Pending /\ response' # Pending) => ~isSubmitting']_vars

\* C13 witness: a request is outstanding and the operator has changed the
\* form meanwhile, so a submit now would send a different request.
C13_Witness ==
    isSubmitting /\ response = Pending /\ form # payload /\ FormValid(form)

\* C14: the status is 'running' exactly while the request is outstanding
\* (isSubmitting is true).
C14_RunningIffSubmitting == (status = "running") <=> isSubmitting

\* C15: a handleSend on a draft that is blank (whitespace only) sets the
\* nothing-to-send notice and changes nothing else; and at every step into
\* 'sent' the draft holds a character that is not whitespace.
HasVisibleChar(text) == \E i \in 1..Len(text) : text[i] # " "

C15_BlankDraftIsNotSent ==
    /\ [][(SendClick /\ ~HasVisibleChar(emailDraft)) =>
             /\ sendMessage' = NothingToSend
             /\ UNCHANGED <<form, logLines, summary, emailDraft, status, error,
                            isSubmitting, payload, response>>]_vars
    /\ [][(status' = "sent" /\ status # "sent") => HasVisibleChar(emailDraft')]_vars

\* C15 witness: the approve button was clicked on a whitespace-only draft of
\* a run awaiting approval, which still awaits it.
C15_Witness ==
    /\ emailDraft # <<>>
    /\ ~HasVisibleChar(emailDraft)
    /\ sendMessage = NothingToSend
    /\ status = "ready"

\* C16: sendMessage is the mock-send confirmation exactly when the status is
\* 'sent'.
C16_ConfirmationIffSent == (sendMessage = MockSendComplete) <=> (status = "sent")

\* C17: a report produced for a completed run names, in its header and in
\* its file name, the company that was submitted for that run.
C17_ReportNamesSubmittedCompany ==
    (download.produced /\ RunSucceeded) =>
        /\ download.header = payload.company
        /\ download.filename = <<ReplaceWhitespace(payload.company), "_outreach.md">>

====
